---- MODULE Spec2Model ----
(***************************************************************************)
(* Model of svparser/lib.py: the two single-pass builders                  *)
(* get_module_instance_map and get_circuit_topology, run over a flat,      *)
(* ordered stream of tagged syntax nodes.                                  *)
(*                                                                         *)
(* A text is a sequence of one-character strings, so that str.strip() is   *)
(* a real conversion.  A node is a record [type_name, str, kids]; kids is  *)
(* the set of descendants the structural query can reach.  A Python dict   *)
(* is a sequence of [key, value] pairs in insertion order.  An exception   *)
(* ends the call: pc = "raised" and fault names the exception.             *)
(***************************************************************************)
EXTENDS Integers, Sequences, FiniteSets, TLC

VARIABLES tree, tree2, im_prev, ct_prev,
          im_pc, im_i, im_module, module_instance_map, im_fault, im_result,
          ct_pc, ct_i, ct_module, instance, module_to_port,
          module_to_circuit_topology, ct_fault, ct_result

vars == <<tree, tree2, im_prev, ct_prev,
          im_pc, im_i, im_module, module_instance_map, im_fault, im_result,
          ct_pc, ct_i, ct_module, instance, module_to_port,
          module_to_circuit_topology, ct_fault, ct_result>>

im_vars == <<im_pc, im_i, im_module, module_instance_map, im_fault, im_result>>

ct_vars == <<ct_pc, ct_i, ct_module, instance, module_to_port,
             module_to_circuit_topology, ct_fault, ct_result>>

(* Longest node stream drawn in Init. *)
MaxLen == 4

(* Longest node stream of the repeated calls (InitSmall). *)
MaxLenSmall == 3

(* Longest node stream of the runs under fairness (InitLive). *)
MaxLenLive == 2

(* Longest node streams of the two concurrent calls (InitConc). *)
MaxLenA == 2
MaxLenB == 3

----------------------------------------------------------------------------
(* Texts *)

Whitespace == {" ", "\n", "\t"}

RECURSIVE lstrip(_)
lstrip(s) == IF s /= <<>> /\ Head(s) \in Whitespace THEN lstrip(Tail(s)) ELSE s

RECURSIVE rstrip(_)
rstrip(s) ==
    IF s /= <<>> /\ s[Len(s)] \in Whitespace
    THEN rstrip(SubSeq(s, 1, Len(s) - 1))
    ELSE s

strip(s) == rstrip(lstrip(s))

(* A local variable that has not been assigned yet. *)
Unbound == <<"<unbound>">>

----------------------------------------------------------------------------
(* Value types *)

Instance(name, module_name) == [name |-> name, module_name |-> module_name]

UnboundInstance == Instance(Unbound, Unbound)

Connection(name, port_name, inst) ==
    [name |-> name, port_name |-> port_name, instance |-> inst]

PortDirection == {<<"i", "n", "p", "u", "t">>,
                  <<"o", "u", "t", "p", "u", "t">>,
                  <<"i", "n", "o", "u", "t">>}

PortFields == {"name", "type", "direction"}

(* Port is a NamedTuple with three fields and no defaults: a call that     *)
(* does not supply every field raises TypeError.                           *)
TypeError == [name |-> Unbound, type |-> Unbound, direction |-> Unbound]

Port(kwargs) == IF DOMAIN kwargs = PortFields THEN kwargs ELSE TypeError

Module(name, ports, connections) ==
    [name |-> name, ports |-> ports, connections |-> connections]

----------------------------------------------------------------------------
(* Syntax nodes and the structural query *)

None == [type_name |-> "NoneType", str |-> <<>>, kids |-> {}]

(* unwrap_node(node, tags): the descendant reached through the chain of    *)
(* tag names, or None.                                                     *)
RECURSIVE unwrap_node(_, _)
unwrap_node(node, tags) ==
    IF tags = <<>> THEN node
    ELSE IF \E c \in node.kids : c.type_name = Head(tags)
         THEN unwrap_node(CHOOSE c \in node.kids : c.type_name = Head(tags),
                          Tail(tags))
         ELSE None

get_str(node) == node.str

(* 'ModuleDeclaration' in node.type_name *)
ModuleDeclarationNames ==
    {"ModuleDeclaration", "ModuleDeclarationAnsi", "ModuleDeclarationNonansi"}

(* 'PortDeclaration' in node.type_name *)
PortDeclarationNames ==
    {"PortDeclaration", "AnsiPortDeclaration", "PortDeclarationInput"}

----------------------------------------------------------------------------
(* Python dict: insertion-ordered sequence of [key, value] *)

Keys(d) == {d[k].key : k \in 1..Len(d)}

Has(d, key) == key \in Keys(d)

Get(d, key) == d[CHOOSE k \in 1..Len(d) : d[k].key = key].value

SetItem(d, key, value) ==
    IF Has(d, key)
    THEN [k \in 1..Len(d) |->
            IF d[k].key = key THEN [key |-> key, value |-> value] ELSE d[k]]
    ELSE Append(d, [key |-> key, value |-> value])

(* list(s) for a set s: some enumeration of it *)
ListOfSet(S) ==
    {l \in [1..Cardinality(S) -> S] :
        \A a, b \in 1..Cardinality(S) : a /= b => l[a] /= l[b]}

----------------------------------------------------------------------------
(* get_module_instance_map: the loop body, one if-statement at a time.     *)
(* s = [node, module, module_instance_map, fault]                          *)

(* variant: the entry is assigned at every declaration, seen or not *)
im_ModuleDeclaration_Reset(s) ==
    IF s.node.type_name \in ModuleDeclarationNames
    THEN LET n == unwrap_node(s.node, <<"ModuleIdentifier">>) IN
         IF n /= None
         THEN LET m == strip(get_str(n)) IN
              [s EXCEPT !.node = n,
                        !.module = m,
                        !.module_instance_map = SetItem(@, m, <<>>)]
         ELSE [s EXCEPT !.node = None]
    ELSE s

im_ModuleDeclaration(s) ==
    IF s.node.type_name \in ModuleDeclarationNames
    THEN LET n == unwrap_node(s.node, <<"ModuleIdentifier">>) IN
         IF n /= None
         THEN LET m == strip(get_str(n)) IN
              [s EXCEPT !.node = n,
                        !.module = m,
                        !.module_instance_map =
                            IF Has(@, m) THEN @ ELSE SetItem(@, m, <<>>)]
         ELSE [s EXCEPT !.node = None]
    ELSE s

(* variants of the instantiation branch: append under the first key of    *)
(* the dict (FirstKey), append only an Instance not yet listed (Dedup),    *)
(* skip the node while no module is bound (SkipUnbound)                    *)
im_ModuleInstantiation_Variant(s, how) ==
    IF s.fault /= "none" THEN s
    ELSE IF s.node = None THEN [s EXCEPT !.fault = "AttributeError"]
    ELSE IF s.node.type_name = "ModuleInstantiation"
    THEN LET mod  == unwrap_node(s.node, <<"ModuleIdentifier">>)
             inst == unwrap_node(s.node, <<"InstanceIdentifier">>)
         IN  IF mod /= None /\ inst /= None
             THEN IF s.module = Unbound
                  THEN IF how = "SkipUnbound" THEN s
                       ELSE [s EXCEPT !.fault = "UnboundLocalError"]
                  ELSE LET new == Instance(strip(get_str(inst)),
                                           strip(get_str(mod)))
                           m == IF how = "FirstKey"
                                THEN s.module_instance_map[1].key
                                ELSE s.module
                           l == Get(s.module_instance_map, m)
                       IN  IF how = "Dedup" /\ \E e \in 1..Len(l) : l[e] = new
                           THEN s
                           ELSE [s EXCEPT !.module_instance_map =
                                    SetItem(@, m, Append(l, new))]
             ELSE s
    ELSE s

im_ModuleInstantiation_FirstKey(s) == im_ModuleInstantiation_Variant(s, "FirstKey")

im_ModuleInstantiation_Dedup(s) == im_ModuleInstantiation_Variant(s, "Dedup")

im_ModuleInstantiation_SkipUnbound(s) ==
    im_ModuleInstantiation_Variant(s, "SkipUnbound")

im_ModuleInstantiation(s) ==
    IF s.fault /= "none" THEN s
    ELSE IF s.node = None THEN [s EXCEPT !.fault = "AttributeError"]
    ELSE IF s.node.type_name = "ModuleInstantiation"
    THEN LET mod  == unwrap_node(s.node, <<"ModuleIdentifier">>)
             inst == unwrap_node(s.node, <<"InstanceIdentifier">>)
         IN  IF mod /= None /\ inst /= None
             THEN IF s.module = Unbound
                  THEN [s EXCEPT !.fault = "UnboundLocalError"]
                  ELSE [s EXCEPT !.module_instance_map =
                          SetItem(@, s.module,
                                  Append(Get(@, s.module),
                                         Instance(strip(get_str(inst)),
                                                  strip(get_str(mod)))))]
             ELSE s
    ELSE s

im_Body(node) ==
    im_ModuleInstantiation(im_ModuleDeclaration(
        [node |-> node, module |-> im_module,
         module_instance_map |-> module_instance_map, fault |-> "none"]))

----------------------------------------------------------------------------
(* get_circuit_topology: the loop body, one if-statement at a time.        *)
(* s = [node, module, instance, module_to_port,                            *)
(*      module_to_circuit_topology, fault]                                 *)

ct_ModuleDeclaration(s) ==
    IF s.node.type_name \in ModuleDeclarationNames
    THEN LET n == unwrap_node(s.node, <<"ModuleIdentifier">>) IN
         IF n /= None
         THEN LET m == strip(get_str(n)) IN
              [s EXCEPT !.node = n,
                        !.module = m,
                        !.module_to_circuit_topology =
                            IF Has(@, m) THEN @ ELSE SetItem(@, m, <<>>),
                        !.module_to_port =
                            IF Has(@, m) THEN @ ELSE SetItem(@, m, {})]
         ELSE [s EXCEPT !.node = None]
    ELSE s

ct_PortDeclaration(s) ==
    IF s.fault /= "none" THEN s
    ELSE IF s.node = None THEN [s EXCEPT !.fault = "AttributeError"]
    ELSE IF s.node.type_name \in PortDeclarationNames
    THEN LET port == unwrap_node(s.node, <<"PortIdentifier">>)
             dir  == unwrap_node(s.node, <<"PortDirection">>)
         IN  IF port /= None /\ dir /= None
             THEN IF s.module = Unbound
                  THEN [s EXCEPT !.fault = "UnboundLocalError"]
                  ELSE IF strip(get_str(dir)) \notin PortDirection
                  THEN [s EXCEPT !.fault = "KeyError"]
                  ELSE LET p == Port([name |-> strip(get_str(port)),
                                      direction |-> strip(get_str(dir))])
                       IN  IF p = TypeError
                           THEN [s EXCEPT !.fault = "TypeError"]
                           ELSE [s EXCEPT !.module_to_port =
                                   SetItem(@, s.module,
                                           Get(@, s.module) \cup {p})]
             ELSE s
    ELSE s

(* variant: an instantiation of any kind (a tag that contains              *)
(* "Instantiation") clears the current module *)
ct_ModuleInstantiation_Clears(s) ==
    IF s.fault /= "none" THEN s
    ELSE IF s.node.type_name = "ModuleInstantiation"
    THEN LET mod  == unwrap_node(s.node, <<"ModuleIdentifier">>)
             inst == unwrap_node(s.node, <<"InstanceIdentifier">>)
         IN  IF mod /= None /\ inst /= None
             THEN [s EXCEPT !.instance = Instance(strip(get_str(inst)),
                                                  strip(get_str(mod)))]
             ELSE s
    ELSE IF s.node.type_name \notin
               ModuleDeclarationNames \cup PortDeclarationNames
                   \cup {"NamedPortConnection", "ModuleIdentifier"}
    THEN [s EXCEPT !.instance = UnboundInstance]
    ELSE s

ct_ModuleInstantiation(s) ==
    IF s.fault /= "none" THEN s
    ELSE IF s.node.type_name = "ModuleInstantiation"
    THEN LET mod  == unwrap_node(s.node, <<"ModuleIdentifier">>)
             inst == unwrap_node(s.node, <<"InstanceIdentifier">>)
         IN  IF mod /= None /\ inst /= None
             THEN [s EXCEPT !.instance = Instance(strip(get_str(inst)),
                                                  strip(get_str(mod)))]
             ELSE s
    ELSE s

(* variant: the new Connection is put in front of the list *)
ct_NamedPortConnection_Prepend(s) ==
    IF s.fault /= "none" THEN s
    ELSE IF s.node.type_name = "NamedPortConnection"
    THEN LET port == unwrap_node(s.node, <<"PortIdentifier">>)
             expr == unwrap_node(s.node, <<"Expression">>)
         IN  IF port /= None /\ expr /= None
             THEN IF s.module = Unbound \/ s.instance = UnboundInstance
                  THEN [s EXCEPT !.fault = "UnboundLocalError"]
                  ELSE [s EXCEPT !.module_to_circuit_topology =
                          SetItem(@, s.module,
                                  <<Connection(strip(get_str(expr)),
                                               strip(get_str(port)),
                                               s.instance)>>
                                  \o Get(@, s.module))]
             ELSE s
    ELSE s

(* variant: a connection whose expression is not found is recorded with    *)
(* an empty name *)
ct_NamedPortConnection_PortOnly(s) ==
    IF s.fault /= "none" THEN s
    ELSE IF s.node.type_name = "NamedPortConnection"
    THEN LET port == unwrap_node(s.node, <<"PortIdentifier">>)
             expr == unwrap_node(s.node, <<"Expression">>)
         IN  IF port /= None
             THEN IF s.module = Unbound \/ s.instance = UnboundInstance
                  THEN [s EXCEPT !.fault = "UnboundLocalError"]
                  ELSE [s EXCEPT !.module_to_circuit_topology =
                          SetItem(@, s.module,
                                  Append(Get(@, s.module),
                                         Connection(strip(get_str(expr)),
                                                    strip(get_str(port)),
                                                    s.instance)))]
             ELSE s
    ELSE s

ct_NamedPortConnection(s) ==
    IF s.fault /= "none" THEN s
    ELSE IF s.node.type_name = "NamedPortConnection"
    THEN LET port == unwrap_node(s.node, <<"PortIdentifier">>)
             expr == unwrap_node(s.node, <<"Expression">>)
         IN  IF port /= None /\ expr /= None
             THEN IF s.module = Unbound \/ s.instance = UnboundInstance
                  THEN [s EXCEPT !.fault = "UnboundLocalError"]
                  ELSE [s EXCEPT !.module_to_circuit_topology =
                          SetItem(@, s.module,
                                  Append(Get(@, s.module),
                                         Connection(strip(get_str(expr)),
                                                    strip(get_str(port)),
                                                    s.instance)))]
             ELSE s
    ELSE s

(* variant: the current module is one variable shared by the two          *)
(* functions, as a module-level `module` would be; a key that is not in    *)
(* the dict raises KeyError *)
ct_Body_SharedModule(node) ==
    LET m  == IF im_module /= Unbound THEN im_module ELSE ct_module
        s0 == [node |-> node, module |-> m, instance |-> instance,
               module_to_port |-> module_to_port,
               module_to_circuit_topology |-> module_to_circuit_topology,
               fault |-> "none"]
    IN  IF /\ node.type_name = "NamedPortConnection"
           /\ m /= Unbound /\ ~Has(module_to_circuit_topology, m)
        THEN [s0 EXCEPT !.fault = "KeyError"]
        ELSE ct_NamedPortConnection(ct_ModuleInstantiation(ct_PortDeclaration(
                 ct_ModuleDeclaration(s0))))

ct_Body(node) ==
    ct_NamedPortConnection(ct_ModuleInstantiation(ct_PortDeclaration(
        ct_ModuleDeclaration(
            [node |-> node, module |-> ct_module, instance |-> instance,
             module_to_port |-> module_to_port,
             module_to_circuit_topology |-> module_to_circuit_topology,
             fault |-> "none"]))))

----------------------------------------------------------------------------
(* The two functions as functions of the node list alone: the loop run     *)
(* from fresh locals over t, from node k on.                               *)

RECURSIVE im_Loop(_, _, _)
im_Loop(t, k, s) ==
    IF k > Len(t)
    THEN [pc |-> "returned", fault |-> "none", result |-> s.module_instance_map]
    ELSE LET r == im_ModuleInstantiation(im_ModuleDeclaration(
                      [s EXCEPT !.node = t[k]]))
         IN  IF r.fault /= "none"
             THEN [pc |-> "raised", fault |-> r.fault, result |-> <<>>]
             ELSE im_Loop(t, k + 1, r)

get_module_instance_map(t) ==
    im_Loop(t, 1, [node |-> None, module |-> Unbound,
                   module_instance_map |-> <<>>, fault |-> "none"])

RECURSIVE ct_Loop(_, _, _)
ct_Loop(t, k, s) ==
    IF k > Len(t)
    THEN [pc |-> "returned", fault |-> "none",
          module_to_port |-> s.module_to_port,
          module_to_circuit_topology |-> s.module_to_circuit_topology]
    ELSE LET r == ct_NamedPortConnection(ct_ModuleInstantiation(
                      ct_PortDeclaration(ct_ModuleDeclaration(
                          [s EXCEPT !.node = t[k]]))))
         IN  IF r.fault /= "none"
             THEN [pc |-> "raised", fault |-> r.fault,
                   module_to_port |-> <<>>, module_to_circuit_topology |-> <<>>]
             ELSE ct_Loop(t, k + 1, r)

get_circuit_topology(t) ==
    ct_Loop(t, 1, [node |-> None, module |-> Unbound,
                   instance |-> UnboundInstance, module_to_port |-> <<>>,
                   module_to_circuit_topology |-> <<>>, fault |-> "none"])

----------------------------------------------------------------------------
(* Node streams *)

Leaf(tag, text) == [type_name |-> tag, str |-> text, kids |-> {}]

Node(tag, kids) == [type_name |-> tag, str |-> <<>>, kids |-> kids]

top == <<"t", "o", "p">>
sub == <<"s", "u", "b">>
s1  == <<"s", "1">>
u1  == <<"u", "1">>
in  == <<"i", "n">>
out == <<"o", "u", "t">>
x   == <<"x">>
y   == <<"y">>
input == <<"i", "n", "p", "u", "t">>

(* Source text as the tree returns it, with surrounding white space. *)
Raw(text) == <<" ">> \o text \o <<"\n">>

MD(m) == Node("ModuleDeclarationAnsi", {Leaf("ModuleIdentifier", Raw(m))})
PD(p, d) == Node("AnsiPortDeclaration",
                 {Leaf("PortIdentifier", p), Leaf("PortDirection", Raw(d))})
MI(m, i) == Node("ModuleInstantiation",
                 {Leaf("ModuleIdentifier", m), Leaf("InstanceIdentifier", Raw(i))})
NC(p, e) == Node("NamedPortConnection",
                 {Leaf("PortIdentifier", p), Leaf("Expression", Raw(e))})

Alphabet ==
    { MD(top), MD(sub),
      Node("ModuleDeclarationAnsi", {}),
      PD(in, input),
      Node("AnsiPortDeclaration", {Leaf("PortIdentifier", in)}),
      MI(sub, u1),
      Node("ModuleInstantiation", {Leaf("InstanceIdentifier", s1)}),
      NC(in, x), NC(out, y),
      Node("NamedPortConnection", {Leaf("PortIdentifier", in)}),
      Node("WhiteSpace", {}) }

(* module top; sub s1(.in(x)); endmodule  module sub(input in); endmodule *)
EndToEndTree == <<MD(top), MI(sub, s1), NC(in, x), MD(sub), PD(in, input)>>

Streams == UNION {[1..n -> Alphabet] : n \in 0..MaxLen} \cup {EndToEndTree}

----------------------------------------------------------------------------
(* The state machine *)

(* the outcome of a call that has not been made *)
NoOutcome == [pc |-> "idle", fault |-> "none", result |-> <<>>]

Init ==
    /\ tree \in Streams /\ tree2 = <<>>
    /\ im_prev = NoOutcome /\ ct_prev = NoOutcome
    /\ im_pc = "idle" /\ im_i = 1 /\ im_module = Unbound
    /\ module_instance_map = <<>> /\ im_fault = "none" /\ im_result = <<>>
    /\ ct_pc = "idle" /\ ct_i = 1 /\ ct_module = Unbound
    /\ instance = UnboundInstance
    /\ module_to_port = <<>> /\ module_to_circuit_topology = <<>>
    /\ ct_fault = "none" /\ ct_result = <<>>

(* The caller invokes the two builders one after the other on the same     *)
(* tree; the calls share nothing but the tree they read.                   *)

(* get_module_instance_map(tree) is called: line 91 *)
im_Call ==
    /\ im_pc = "idle"
    /\ im_pc' = "loop" /\ im_i' = 1
    /\ module_instance_map' = <<>>
    /\ UNCHANGED <<tree, tree2, im_prev, ct_prev, im_module, im_fault, im_result, ct_vars>>

(* variant: a node that changes nothing is visited again *)
im_Node_Revisit ==
    /\ im_pc = "loop" /\ im_i <= Len(tree)
    /\ \E s \in {im_Body(tree[im_i])} :
       /\ im_module' = s.module
       /\ module_instance_map' = s.module_instance_map
       /\ im_fault' = s.fault
       /\ IF s.fault = "none"
          THEN /\ im_pc' = "loop"
               /\ im_i' = IF s.module_instance_map = module_instance_map
                              /\ s.module = im_module
                           THEN im_i ELSE im_i + 1
          ELSE im_pc' = "raised" /\ im_i' = im_i
    /\ UNCHANGED <<tree, tree2, im_prev, ct_prev, im_result, ct_vars>>

(* one iteration of the for loop, lines 92-104 *)
im_Node ==
    /\ im_pc = "loop" /\ im_i <= Len(tree)
    /\ \E s \in {im_Body(tree[im_i])} :
       /\ im_module' = s.module
       /\ module_instance_map' = s.module_instance_map
       /\ im_fault' = s.fault
       /\ IF s.fault = "none"
          THEN im_pc' = "loop" /\ im_i' = im_i + 1
          ELSE im_pc' = "raised" /\ im_i' = im_i
    /\ UNCHANGED <<tree, tree2, im_prev, ct_prev, im_result, ct_vars>>

(* return module_instance_map, line 105 *)
im_Return ==
    /\ im_pc = "loop" /\ im_i > Len(tree)
    /\ im_pc' = "returned"
    /\ im_result' = module_instance_map
    /\ UNCHANGED <<tree, tree2, im_prev, ct_prev, im_i, im_module, module_instance_map, im_fault, ct_vars>>

(* get_circuit_topology(tree) is called: lines 109-110 *)
ct_Call ==
    /\ ct_pc = "idle" /\ im_pc \in {"returned", "raised"}
    /\ ct_pc' = "loop" /\ ct_i' = 1
    /\ module_to_port' = <<>> /\ module_to_circuit_topology' = <<>>
    /\ UNCHANGED <<tree, tree2, im_prev, ct_prev, ct_module, instance, ct_fault, ct_result, im_vars>>

(* one iteration of the for loop over the node list t, lines 111-140 *)
ct_Visit(t) ==
    /\ ct_pc = "loop" /\ ct_i <= Len(t)
    /\ \E s \in {ct_Body(t[ct_i])} :
       /\ ct_module' = s.module
       /\ instance' = s.instance
       /\ module_to_port' = s.module_to_port
       /\ module_to_circuit_topology' = s.module_to_circuit_topology
       /\ ct_fault' = s.fault
       /\ IF s.fault = "none"
          THEN ct_pc' = "loop" /\ ct_i' = ct_i + 1
          ELSE ct_pc' = "raised" /\ ct_i' = ct_i
    /\ UNCHANGED <<tree, tree2, im_prev, ct_prev, ct_result, im_vars>>

ct_Node == ct_Visit(tree)

(* the list comprehension of lines 142-143, after the loop over t *)
ct_Finish(t) ==
    /\ ct_pc = "loop" /\ ct_i > Len(t)
    /\ ct_pc' = "returned"
    /\ \E ports \in [1..Len(module_to_circuit_topology) ->
                        UNION {ListOfSet(module_to_port[k].value) :
                                   k \in 1..Len(module_to_port)}] :
          /\ \A k \in 1..Len(module_to_circuit_topology) :
                ports[k] \in ListOfSet(Get(module_to_port,
                                           module_to_circuit_topology[k].key))
          /\ ct_result' =
                [k \in 1..Len(module_to_circuit_topology) |->
                    Module(module_to_circuit_topology[k].key, ports[k],
                           module_to_circuit_topology[k].value)]
    /\ UNCHANGED <<tree, tree2, im_prev, ct_prev, ct_i, ct_module, instance, module_to_port,
                   module_to_circuit_topology, ct_fault, im_vars>>

ct_Return == ct_Finish(tree)

Next ==
    \/ im_Call
    \/ im_Node
    \/ im_Return
    \/ ct_Call
    \/ ct_Node
    \/ ct_Return

Spec == Init /\ [][Next]_vars

(* the state before any call, but for the trees *)
InitCalls ==
    /\ im_prev = NoOutcome /\ ct_prev = NoOutcome
    /\ im_pc = "idle" /\ im_i = 1 /\ im_module = Unbound
    /\ module_instance_map = <<>> /\ im_fault = "none" /\ im_result = <<>>
    /\ ct_pc = "idle" /\ ct_i = 1 /\ ct_module = Unbound
    /\ instance = UnboundInstance
    /\ module_to_port = <<>> /\ module_to_circuit_topology = <<>>
    /\ ct_fault = "none" /\ ct_result = <<>>

(* A second call of a builder on the same tree, once its first call has   *)
(* ended: the outcome of the first call is kept aside and the call starts  *)
(* from fresh locals (lines 91, 109-110).                                  *)
SmallStreams == UNION {[1..n -> Alphabet] : n \in 0..MaxLenSmall}

InitSmall == tree \in SmallStreams /\ tree2 = <<>> /\ InitCalls

(* variant: the dict outlives the call, as a module-level dict would *)
im_Recall_KeepsDict ==
    /\ im_pc \in {"returned", "raised"} /\ im_prev = NoOutcome /\ ct_pc = "idle"
    /\ im_prev' = [pc |-> im_pc, fault |-> im_fault,
                   result |-> IF im_pc = "returned" THEN im_result ELSE <<>>]
    /\ im_pc' = "loop" /\ im_i' = 1 /\ im_module' = Unbound
    /\ module_instance_map' = module_instance_map
    /\ im_fault' = "none" /\ im_result' = <<>>
    /\ UNCHANGED <<tree, tree2, ct_prev, ct_vars>>

im_Recall ==
    /\ im_pc \in {"returned", "raised"} /\ im_prev = NoOutcome /\ ct_pc = "idle"
    /\ im_prev' = [pc |-> im_pc, fault |-> im_fault,
                   result |-> IF im_pc = "returned" THEN im_result ELSE <<>>]
    /\ im_pc' = "loop" /\ im_i' = 1 /\ im_module' = Unbound
    /\ module_instance_map' = <<>>
    /\ im_fault' = "none" /\ im_result' = <<>>
    /\ UNCHANGED <<tree, tree2, ct_prev, ct_vars>>

ct_Recall ==
    /\ ct_pc \in {"returned", "raised"} /\ ct_prev = NoOutcome
    /\ ct_prev' = [pc |-> ct_pc, fault |-> ct_fault,
                   result |-> IF ct_pc = "returned" THEN ct_result ELSE <<>>]
    /\ ct_pc' = "loop" /\ ct_i' = 1 /\ ct_module' = Unbound
    /\ instance' = UnboundInstance
    /\ module_to_port' = <<>> /\ module_to_circuit_topology' = <<>>
    /\ ct_fault' = "none" /\ ct_result' = <<>>
    /\ UNCHANGED <<tree, tree2, im_prev, im_vars>>

NextTwice ==
    \/ im_Call
    \/ im_Node
    \/ im_Return
    \/ im_Recall
    \/ ct_Call
    \/ ct_Node
    \/ ct_Return
    \/ ct_Recall

SpecTwice == InitSmall /\ [][NextTwice]_vars

(* Two calls in two threads, get_module_instance_map over tree and        *)
(* get_circuit_topology over tree2, two independent node lists; the        *)
(* threads interleave between any two loop iterations.                     *)
ConcAlphabet == {MD(top), MD(sub), MI(sub, u1), NC(in, x)}

StreamsA == UNION {[1..n -> ConcAlphabet] : n \in 0..MaxLenA}

StreamsB == UNION {[1..n -> ConcAlphabet] : n \in 0..MaxLenB}

InitConc == tree \in StreamsA /\ tree2 \in StreamsB /\ InitCalls

(* get_circuit_topology(tree2) is called: lines 109-110 *)
ct2_Call ==
    /\ ct_pc = "idle"
    /\ ct_pc' = "loop" /\ ct_i' = 1
    /\ module_to_port' = <<>> /\ module_to_circuit_topology' = <<>>
    /\ UNCHANGED <<tree, tree2, im_prev, ct_prev, ct_module, instance, ct_fault, ct_result, im_vars>>

ct2_Node == ct_Visit(tree2)

ct2_Return == ct_Finish(tree2)

NextConc ==
    \/ im_Call
    \/ im_Node
    \/ im_Return
    \/ ct2_Call
    \/ ct2_Node
    \/ ct2_Return

SpecConc == InitConc /\ [][NextConc]_vars

(* A call that has started is run to its end: the loop is synchronous and  *)
(* nothing suspends it.                                                    *)
LiveStreams == UNION {[1..n -> Alphabet] : n \in 0..MaxLenLive}

InitLive == tree \in LiveStreams /\ tree2 = <<>> /\ InitCalls

FairSpec == InitLive /\ [][Next]_vars /\ WF_vars(Next)

----------------------------------------------------------------------------
(* What the stream says, independently of the passes *)

IsModuleDeclaration(n) == n.type_name \in ModuleDeclarationNames
IsPortDeclaration(n) == n.type_name \in PortDeclarationNames
IsModuleInstantiation(n) == n.type_name = "ModuleInstantiation"
IsNamedPortConnection(n) == n.type_name = "NamedPortConnection"

Found(n, tag) == \E c \in n.kids : c.type_name = tag
TextOf(n, tag) == strip((CHOOSE c \in n.kids : c.type_name = tag).str)

ResolvedMD(n) == IsModuleDeclaration(n) /\ Found(n, "ModuleIdentifier")
ResolvedPD(n) ==
    IsPortDeclaration(n) /\ Found(n, "PortIdentifier") /\ Found(n, "PortDirection")
ResolvedMI(n) ==
    /\ IsModuleInstantiation(n)
    /\ Found(n, "ModuleIdentifier") /\ Found(n, "InstanceIdentifier")
ResolvedNC(n) ==
    IsNamedPortConnection(n) /\ Found(n, "PortIdentifier") /\ Found(n, "Expression")

(* a node of a handled category with an expected child missing *)
Unresolved(n) ==
    \/ IsModuleDeclaration(n) /\ ~ResolvedMD(n)
    \/ IsPortDeclaration(n) /\ ~ResolvedPD(n)
    \/ IsModuleInstantiation(n) /\ ~ResolvedMI(n)
    \/ IsNamedPortConnection(n) /\ ~ResolvedNC(n)

Max0(S) == IF S = {} THEN 0 ELSE CHOOSE m \in S : \A o \in S : o <= m

(* index of the module-declaration node most recently preceding node j, or 0 *)
LastDecl(j) == Max0({k \in 1..(j - 1) : IsModuleDeclaration(tree[k])})

(* index of the resolved instantiation node most recently preceding node j, or 0 *)
LastInst(j) == Max0({k \in 1..(j - 1) : ResolvedMI(tree[k])})

(* the module in whose scope node j lies *)
ScopeName(j) ==
    IF LastDecl(j) > 0 /\ ResolvedMD(tree[LastDecl(j)])
    THEN TextOf(tree[LastDecl(j)], "ModuleIdentifier")
    ELSE Unbound

InstanceOf(n) ==
    Instance(TextOf(n, "InstanceIdentifier"), TextOf(n, "ModuleIdentifier"))

Wire(n) == [name |-> TextOf(n, "Expression"), port_name |-> TextOf(n, "PortIdentifier")]

WireOf(c) == [name |-> c.name, port_name |-> c.port_name]

Indices(n) == [k \in 1..n |-> k]

(* instances of the resolved instantiation nodes among the first n nodes   *)
(* that lie in the scope of module m, in stream order                      *)
ExpectedInstances(m, n) ==
    LET sel == SelectSeq(Indices(n),
                         LAMBDA k : ResolvedMI(tree[k]) /\ ScopeName(k) = m)
    IN  [k \in 1..Len(sel) |-> InstanceOf(tree[sel[k]])]

(* (expression, port) of the resolved connection nodes among the first n   *)
(* nodes that lie in the scope of module m, in stream order                *)
ExpectedWires(m, n) ==
    LET sel == SelectSeq(Indices(n),
                         LAMBDA k : ResolvedNC(tree[k]) /\ ScopeName(k) = m)
    IN  [k \in 1..Len(sel) |-> Wire(tree[sel[k]])]

DeclaredNames(n) ==
    {TextOf(tree[k], "ModuleIdentifier") : k \in {j \in 1..n : ResolvedMD(tree[j])}}

NoModuleDeclaration == \A k \in 1..Len(tree) : ~IsModuleDeclaration(tree[k])

im_done == im_pc \in {"returned", "raised"}
ct_done == ct_pc \in {"returned", "raised"}

----------------------------------------------------------------------------
(* C1: every Instance recorded under module M by get_module_instance_map   *)
(* and every Connection recorded under M by get_circuit_topology comes     *)
(* from an already visited, resolved instantiation / named-connection node *)
(* whose most recently preceding module-declaration node declared M.       *)
C1_Ownership ==
    /\ \A d \in 1..Len(module_instance_map) :
         \A e \in 1..Len(module_instance_map[d].value) :
            \E j \in 1..(im_i - 1) :
                /\ ResolvedMI(tree[j])
                /\ InstanceOf(tree[j]) = module_instance_map[d].value[e]
                /\ ScopeName(j) = module_instance_map[d].key
    /\ \A d \in 1..Len(module_to_circuit_topology) :
         \A e \in 1..Len(module_to_circuit_topology[d].value) :
            \E j \in 1..(ct_i - 1) :
                /\ ResolvedNC(tree[j])
                /\ Wire(tree[j]) = WireOf(module_to_circuit_topology[d].value[e])
                /\ ScopeName(j) = module_to_circuit_topology[d].key
    /\ im_pc = "returned" => im_result = module_instance_map
    /\ ct_pc = "returned" =>
         /\ Len(ct_result) = Len(module_to_circuit_topology)
         /\ \A d \in 1..Len(ct_result) :
              /\ ct_result[d].name = module_to_circuit_topology[d].key
              /\ ct_result[d].connections = module_to_circuit_topology[d].value

(* both builders returned, and each recorded something under the module    *)
(* declared second *)
C1_Witness ==
    /\ im_pc = "returned" /\ ct_pc = "returned"
    /\ Len(im_result) = 2 /\ im_result[2].value /= <<>>
    /\ Len(ct_result) = 2 /\ ct_result[2].connections /= <<>>

(* C2: the instance of a Connection just recorded by get_circuit_topology  *)
(* is that of the most recent resolved instantiation node, and this node   *)
(* lies after the current module's declaration node.                       *)
C2_InstanceInScope ==
    (ct_pc = "loop" /\ ct_i > 1 /\ ResolvedNC(tree[ct_i - 1])) =>
        LET j == ct_i - 1
            l == Get(module_to_circuit_topology, ct_module)
        IN  /\ LastInst(j) > LastDecl(j)
            /\ l[Len(l)].instance = InstanceOf(tree[LastInst(j)])

(* C3: a node of a handled category whose expected child is not found      *)
(* never makes either call raise.                                          *)
C3_UnresolvedSkipped ==
    /\ im_pc = "raised" => ~Unresolved(tree[im_i])
    /\ ct_pc = "raised" => ~Unresolved(tree[ct_i])

(* C4: on the end-to-end stream get_circuit_topology returns exactly the   *)
(* two Module records sub (one input port in, no connection) and top (no   *)
(* port, the connection x -> s1.in).                                       *)
C4_EndToEnd ==
    (tree = EndToEndTree /\ ct_done) =>
        /\ ct_pc = "returned"
        /\ Len(ct_result) = 2
        /\ \E a, b \in 1..2 :
              /\ ct_result[a].name = sub
              /\ Len(ct_result[a].ports) = 1
              /\ ct_result[a].ports[1].name = in
              /\ ct_result[a].ports[1].direction = input
              /\ ct_result[a].connections = <<>>
              /\ ct_result[b] =
                    Module(top, <<>>, <<Connection(x, in, Instance(s1, sub))>>)

(* C5: the connection list of each module is exactly the sequence of the   *)
(* resolved named-connection nodes visited so far in that module's scope,  *)
(* in stream order and with multiplicity.                                  *)
C5_ConnectionOrder ==
    /\ \A d \in 1..Len(module_to_circuit_topology) :
         LET l == module_to_circuit_topology[d].value IN
         [e \in 1..Len(l) |-> WireOf(l[e])] =
            ExpectedWires(module_to_circuit_topology[d].key, ct_i - 1)
    /\ ct_pc = "returned" =>
         \A d \in 1..Len(ct_result) :
            LET l == ct_result[d].connections IN
            [e \in 1..Len(l) |-> WireOf(l[e])] =
                ExpectedWires(ct_result[d].name, Len(tree))

(* get_circuit_topology returned a module with two different connections   *)
(* and a module with the same connection twice *)
C5_Witness ==
    /\ ct_pc = "returned"
    /\ \E d \in 1..Len(ct_result) :
          LET l == ct_result[d].connections IN
          /\ Len(l) >= 2
          /\ \/ WireOf(l[1]) /= WireOf(l[2])
             \/ l[1] = l[2]

C7_PortDedup ==
    /\ ct_pc = "raised" =>
         ~(ResolvedPD(tree[ct_i]) /\ ScopeName(ct_i) /= Unbound)
    /\ \A d \in 1..Len(module_to_port) :
         Cardinality(module_to_port[d].value) =
            Cardinality({<<TextOf(tree[j], "PortIdentifier"),
                           TextOf(tree[j], "PortDirection")>> :
                            j \in {k \in 1..(ct_i - 1) :
                                     /\ ResolvedPD(tree[k])
                                     /\ ScopeName(k) = module_to_port[d].key}})

(* C8: on a stream without module-declaration node both builders return,   *)
(* and return the empty mapping / the empty collection.                    *)
C8_NoModuleEmpty ==
    NoModuleDeclaration =>
        /\ im_done => (im_pc = "returned" /\ im_result = <<>>)
        /\ ct_done => (ct_pc = "returned" /\ ct_result = <<>>)

(* a resolved port-declaration, instantiation or named-connection node     *)
(* with no module-declaration node before it *)
UnscopedResolved(j) ==
    /\ ResolvedPD(tree[j]) \/ ResolvedMI(tree[j]) \/ ResolvedNC(tree[j])
    /\ \A k \in 1..(j - 1) : ~IsModuleDeclaration(tree[k])

EntryOnce(d, dn, node, empty) ==
    /\ Len(d) <= Len(dn) /\ Len(dn) <= Len(d) + 1
    /\ \A k \in 1..Len(d) : dn[k].key = d[k].key
    /\ Len(dn) = Len(d) + 1 =>
         /\ ResolvedMD(node)
         /\ dn[Len(dn)].key = TextOf(node, "ModuleIdentifier")
         /\ ~Has(d, dn[Len(dn)].key)
         /\ dn[Len(dn)].value = empty
         /\ \A k \in 1..Len(d) : dn[k] = d[k]
    /\ ResolvedMD(node) =>
         /\ Has(dn, TextOf(node, "ModuleIdentifier"))
         /\ Has(d, TextOf(node, "ModuleIdentifier")) => dn = d

OneEntryPerName(d) == Cardinality(Keys(d)) = Len(d)

C10_State ==
    /\ OneEntryPerName(module_instance_map)
    /\ OneEntryPerName(module_to_port)
    /\ OneEntryPerName(module_to_circuit_topology)
    /\ im_pc = "returned" =>
         /\ Keys(im_result) = DeclaredNames(Len(tree))
         /\ Len(im_result) = Cardinality(DeclaredNames(Len(tree)))
    /\ ct_pc = "returned" =>
         /\ {ct_result[k].name : k \in 1..Len(ct_result)} = DeclaredNames(Len(tree))
         /\ Len(ct_result) = Cardinality(DeclaredNames(Len(tree)))

C10_Step ==
    /\ (im_pc = "loop" /\ im_i' = im_i + 1) =>
         EntryOnce(module_instance_map, module_instance_map', tree[im_i], <<>>)
    /\ im_i' = im_i => Keys(module_instance_map') = Keys(module_instance_map)
    /\ (ct_pc = "loop" /\ ct_i' = ct_i + 1) =>
         /\ EntryOnce(module_to_circuit_topology, module_to_circuit_topology',
                      tree[ct_i], <<>>)
         /\ EntryOnce(module_to_port, module_to_port', tree[ct_i], {})
    /\ ct_i' = ct_i =>
         /\ Keys(module_to_circuit_topology') = Keys(module_to_circuit_topology)
         /\ Keys(module_to_port') = Keys(module_to_port)

(* C10: in both builders the entry of a module is created once, empty, by  *)
(* the first declaration node that resolves to its name; a later           *)
(* declaration of a known name changes nothing; no entry is ever removed,  *)
(* and the result has one record per distinct declared name.               *)
C10_EntryCreatedOnce == []C10_State /\ [][C10_Step]_vars

(* both builders returned after a second declaration of a module that      *)
(* already had an instance and a connection recorded under it *)
C10_Witness ==
    /\ im_pc = "returned" /\ ct_pc = "returned"
    /\ \E a, b \in 1..Len(tree) :
          /\ a < b /\ ResolvedMD(tree[a]) /\ tree[b] = tree[a]
          /\ \E j \in (a + 1)..(b - 1) : ResolvedMI(tree[j])
          /\ \E j \in (a + 1)..(b - 1) : ResolvedNC(tree[j])
    /\ \E d \in 1..Len(im_result) : im_result[d].value /= <<>>
    /\ \E d \in 1..Len(ct_result) : ct_result[d].connections /= <<>>

(* a step of get_circuit_topology / get_module_instance_map over one node *)
ct_Visits == ct_pc = "loop" /\ ct_i <= Len(tree) /\ ct_vars' /= ct_vars
im_Visits == im_pc = "loop" /\ im_i <= Len(tree) /\ im_vars' /= im_vars

(* a named-connection node whose port identifier is found and whose        *)
(* expression is not *)
PortOnlyNC(n) ==
    IsNamedPortConnection(n) /\ Found(n, "PortIdentifier") /\ ~Found(n, "Expression")

C12_Step ==
    (ct_Visits /\ PortOnlyNC(tree[ct_i]) /\ ct_module /= Unbound) =>
        /\ ct_pc' = "loop" /\ ct_fault' = "none" /\ ct_i' = ct_i + 1
        /\ module_to_circuit_topology' = module_to_circuit_topology
        /\ module_to_port' = module_to_port
        /\ ct_module' = ct_module
        /\ instance' = instance

(* C12: in get_circuit_topology the visit of a named-connection node       *)
(* inside a declared module, whose port identifier resolves and whose      *)
(* expression does not, raises nothing, appends no Connection and leaves   *)
(* ports, connections, current module and current instance unchanged.      *)
C12_UnresolvedExpression == [][C12_Step]_vars

(* such a node was just passed, in a module that has an instance and a     *)
(* connection already *)
C12_Witness ==
    /\ ct_pc = "loop" /\ ct_i > 1
    /\ PortOnlyNC(tree[ct_i - 1])
    /\ ct_module /= Unbound /\ instance /= UnboundInstance
    /\ Get(module_to_circuit_topology, ct_module) /= <<>>

(* tags the builders do not handle *)
IgnoredByInstanceMap(n) == ~IsModuleDeclaration(n) /\ ~IsModuleInstantiation(n)

IgnoredByTopology(n) ==
    /\ ~IsModuleDeclaration(n) /\ ~IsPortDeclaration(n)
    /\ ~IsModuleInstantiation(n) /\ ~IsNamedPortConnection(n)

im_Outcome ==
    [pc |-> im_pc, fault |-> im_fault,
     result |-> IF im_pc = "returned" THEN im_result ELSE <<>>]

(* the outcome of get_circuit_topology is the one the run r describes *)
ct_OutcomeIs(r) ==
    /\ ct_pc = r.pc /\ ct_fault = r.fault
    /\ ct_pc = "returned" =>
         /\ Len(ct_result) = Len(r.module_to_circuit_topology)
         /\ \A k \in 1..Len(ct_result) :
              /\ ct_result[k].name = r.module_to_circuit_topology[k].key
              /\ ct_result[k].connections = r.module_to_circuit_topology[k].value
              /\ ct_result[k].ports \in
                    ListOfSet(Get(r.module_to_port, ct_result[k].name))

C14_Step ==
    /\ (im_Visits /\ IgnoredByInstanceMap(tree[im_i])) =>
         /\ im_pc' = "loop" /\ im_fault' = "none" /\ im_i' = im_i + 1
         /\ module_instance_map' = module_instance_map
         /\ im_module' = im_module
    /\ (ct_Visits /\ IgnoredByTopology(tree[ct_i])) =>
         /\ ct_pc' = "loop" /\ ct_fault' = "none" /\ ct_i' = ct_i + 1
         /\ module_to_circuit_topology' = module_to_circuit_topology
         /\ module_to_port' = module_to_port
         /\ ct_module' = ct_module
         /\ instance' = instance

C14_State ==
    /\ im_done =>
         im_Outcome = get_module_instance_map(
                          SelectSeq(tree, LAMBDA n : ~IgnoredByInstanceMap(n)))
    /\ ct_done =>
         ct_OutcomeIs(get_circuit_topology(
                          SelectSeq(tree, LAMBDA n : ~IgnoredByTopology(n))))

(* C14: the visit of a node with a tag the builder does not handle (for    *)
(* get_module_instance_map also port-declaration and named-connection      *)
(* nodes) changes nothing but the position in the stream, and the outcome  *)
(* of a call is the outcome on the stream without such nodes.              *)
C14_OtherTagsIgnored == []C14_State /\ [][C14_Step]_vars

(* both builders returned something after passing a node they ignore that  *)
(* lies inside a module, after an instantiation *)
C14_Witness ==
    /\ im_pc = "returned" /\ ct_pc = "returned"
    /\ \E j \in 2..Len(tree) :
          /\ IgnoredByTopology(tree[j])
          /\ ScopeName(j) /= Unbound /\ LastInst(j) > 0
    /\ \E j \in 2..Len(tree) : IsNamedPortConnection(tree[j])
    /\ \E d \in 1..Len(ct_result) : ct_result[d].connections /= <<>>

(* C16: when both builders return, the Module names are the keys of the    *)
(* instance map, each once and in the same (first-declaration) order, and  *)
(* the instance of every Connection of module M is in the instance list    *)
(* of M.                                                                   *)
C16_BuildersAgree ==
    (im_pc = "returned" /\ ct_pc = "returned") =>
        /\ Len(ct_result) = Len(im_result)
        /\ \A k \in 1..Len(ct_result) : ct_result[k].name = im_result[k].key
        /\ Cardinality(Keys(im_result)) = Len(im_result)
        /\ \A k \in 1..Len(ct_result) :
             \A e \in 1..Len(ct_result[k].connections) :
                \E f \in 1..Len(im_result[k].value) :
                    im_result[k].value[f] = ct_result[k].connections[e].instance

C15_State ==
    /\ im_i \in 1..(Len(tree) + 1) /\ ct_i \in 1..(Len(tree) + 1)
    /\ im_pc = "returned" => im_i = Len(tree) + 1
    /\ ct_pc = "returned" => ct_i = Len(tree) + 1
    /\ im_pc = "raised" => im_i <= Len(tree)
    /\ ct_pc = "raised" => ct_i <= Len(tree)

C15_Step ==
    /\ im_Visits => \/ im_pc' = "loop" /\ im_i' = im_i + 1
                    \/ im_pc' = "raised" /\ im_i' = im_i
    /\ ct_Visits => \/ ct_pc' = "loop" /\ ct_i' = ct_i + 1
                    \/ ct_pc' = "raised" /\ ct_i' = ct_i
    /\ im_i' \in {im_i, im_i + 1} /\ ct_i' \in {ct_i, ct_i + 1}
    /\ im_done => im_vars' = im_vars
    /\ ct_done => ct_vars' = ct_vars

(* C15: each builder moves through the stream one node at a time, in       *)
(* order, never back and never ahead; it returns only after the last node, *)
(* fails only at a node, and every call ends.                              *)
C15_Terminates == []C15_State /\ [][C15_Step]_vars /\ <>(im_done /\ ct_done)

(* both builders returned after visiting every node of a longest stream *)
C15_Witness ==
    /\ im_pc = "returned" /\ ct_pc = "returned"
    /\ Len(tree) >= MaxLenLive
    /\ im_i = Len(tree) + 1 /\ ct_i = Len(tree) + 1

ct_Outcome ==
    [pc |-> ct_pc, fault |-> ct_fault,
     result |-> IF ct_pc = "returned" THEN ct_result ELSE <<>>]

(* C11: a second call of a builder on the same node stream ends as the     *)
(* first did, with an equal result or the same fault, and the outcome of   *)
(* every call is the one the stream alone determines.                      *)
C11_SameOutcomeTwice ==
    /\ (im_done /\ im_prev /= NoOutcome) => im_Outcome = im_prev
    /\ (ct_done /\ ct_prev /= NoOutcome) => ct_Outcome = ct_prev
    /\ im_done => im_Outcome = get_module_instance_map(tree)
    /\ ct_done => ct_OutcomeIs(get_circuit_topology(tree))

(* each builder returned twice, with an instance and a connection in its   *)
(* result *)
C11_Witness ==
    /\ im_pc = "returned" /\ im_prev.pc = "returned"
    /\ \E d \in 1..Len(im_result) : im_result[d].value /= <<>>
    /\ ct_pc = "returned" /\ ct_prev.pc = "returned"
    /\ \E d \in 1..Len(ct_result) : ct_result[d].connections /= <<>>

C13_State ==
    /\ im_done => im_Outcome = get_module_instance_map(tree)
    /\ ct_done => ct_OutcomeIs(get_circuit_topology(tree2))

C13_Step ==
    /\ tree' = tree /\ tree2' = tree2
    /\ im_vars' = im_vars \/ ct_vars' = ct_vars

(* C13: with the two calls interleaved over independent streams, each      *)
(* call ends with the outcome of a run alone over its own stream; a step   *)
(* changes the state of one call only and never a stream.                  *)
C13_Isolation == []C13_State /\ [][C13_Step]_vars

(* the two calls are both in their loop, past their first node, over       *)
(* different streams and in different modules *)
C13_Witness ==
    /\ im_pc = "loop" /\ ct_pc = "loop"
    /\ im_i > 1 /\ ct_i > 1
    /\ tree /= tree2
    /\ im_module /= Unbound /\ ct_module /= Unbound /\ im_module /= ct_module
    /\ module_instance_map /= <<>> /\ module_to_circuit_topology /= <<>>

====
